---- MODULE Spec2Model ----
(***************************************************************************)
(* A model of nnForge's sparse convolution layer                            *)
(* (nnforge/sparse_convolution_layer.cpp): its validation, shape            *)
(* inference, weight-store sizing, serialization, cost, and the randomized  *)
(* connectivity generator fill_connection_matrix with its compressed-row    *)
(* output; of the negative log likelihood layer                             *)
(* (nnforge/negative_log_likelihood_layer.cpp); and of the threads that     *)
(* call stat_data_bunch_writer::write (nnforge/stat_data_bunch_writer.cpp). *)
(*                                                                          *)
(* Vectors of the source are indexed from 0; TLA+ sequences from 1, so the  *)
(* element v[k] of the source is v[k + 1] here.  The flat connection        *)
(* matrix is a function on 0 .. output_count * input_count - 1, indexed     *)
(* as in the source by output_id * input_count + input_id.                  *)
(***************************************************************************)
EXTENDS Integers, Sequences, FiniteSets, TLC

(***************************************************************************)
(* Bounds of the model.                                                     *)
(***************************************************************************)
MaxOutputCount == 3
MaxInputCount == 3
MaxConnectionCount == 4
MaxDims == 1
MaxWindow == 3
MaxPadding == 2
MaxStride == 2
MaxSize == 4
MaxFeatureMaps == 2
MaxNumerator == 3
MaxWriters == 2
MaxLossSize == 2
MaxNeurons == 2
MaxNeuronValue == 2
MaxWrites == 2

Max(a, b) == IF a >= b THEN a ELSE b

\* From this margin on both strict caps exceed every degree a node can
\* reach (ceil(e/n) >= 1), so no availability list ever shrinks and every
\* larger margin behaves exactly alike: ++margin saturates here.
MaxMargin == Max(MaxOutputCount, MaxInputCount)

\* unsigned int arithmetic is modulo 2^32 in the source.  The integers of
\* the model checker end at 2^31 - 1, so the model wraps at 2^30: every
\* value drawn is far below either modulus, no sum or product of the model
\* reaches it, and a difference wraps here exactly when it wraps in the
\* source (to the modulus minus the same amount).
UIntModulus == 2^30

U32(x) == x % UIntModulus

\* a float that is the quotient num / den; -1.0F marks the explicit-count form
Ratio(num, den) == [num |-> num, den |-> den]

CountForm == Ratio(-1, 1)

(***************************************************************************)
(* Constants of the source.                                                 *)
(***************************************************************************)
StrictCursorAttempts == 20
StrictRandomAttempts == 100
OverflowAttempts == 100

VARIABLES
    \* the layer instance (sparse_convolution_layer's fields)
    window_sizes, left_zero_padding, right_zero_padding, strides,
    input_feature_map_count, output_feature_map_count,
    feature_map_connection_count, feature_map_connection_sparsity_ratio,
    bias,
    \* where the running operation stands, and the last call with its outcome
    pc, call,
    \* fill_connection_matrix: its in/out parameter and its locals
    connection_matrix, margin, local_connection_matrix,
    output_feature_map_connection_count_list,
    input_feature_map_connection_count_list,
    output_feature_map_id_available_list,
    output_feature_map_id_available_overflow_list,
    input_feature_map_id_available_list,
    input_feature_map_id_available_overflow_list,
    explore_strict, should_retry_with_larger_margin,
    current_output_feature_map_index, i, attempt_id,
    \* fill_data_custom: data_custom[0] (column indices), data_custom[1] (row offsets)
    data_custom,
    \* the negative_log_likelihood_layer instance
    scale,
    \* the stat_data_bunch_writer instance
    layer_name_to_running_stat_list_map,
    layer_name_to_neuron_count_per_feature_map_map,
    entry_count, update_stat_mutex,
    \* each thread's position in write() with its locals, and the data of
    \* every write() called so far
    writers, written

layer_vars == <<window_sizes, left_zero_padding, right_zero_padding, strides,
                input_feature_map_count, output_feature_map_count,
                feature_map_connection_count,
                feature_map_connection_sparsity_ratio, bias>>

gen_vars == <<connection_matrix, margin, local_connection_matrix,
              output_feature_map_connection_count_list,
              input_feature_map_connection_count_list,
              output_feature_map_id_available_list,
              output_feature_map_id_available_overflow_list,
              input_feature_map_id_available_list,
              input_feature_map_id_available_overflow_list,
              explore_strict, should_retry_with_larger_margin,
              current_output_feature_map_index, i, attempt_id>>

writer_vars == <<layer_name_to_running_stat_list_map,
                 layer_name_to_neuron_count_per_feature_map_map,
                 entry_count, update_stat_mutex, writers, written>>

\* what neither the sparse convolution nor its connectivity generator touches
other_vars == <<scale, writer_vars>>

vars == <<layer_vars, pc, call, gen_vars, data_custom, other_vars>>

(***************************************************************************)
(* fill_connection_matrix                                                   *)
(***************************************************************************)
OutIds == 0 .. output_feature_map_count - 1
InIds == 0 .. input_feature_map_count - 1

\* the flat index output_feature_map_id * input_feature_map_count + input_feature_map_id
MatrixIndex(o, n) == o * input_feature_map_count + n

EmptyMatrix(oc, ic) == [k \in 0 .. oc * ic - 1 |-> FALSE]

\* unsigned division rounds down; (e + n - 1) / n + margin
max_connections_for_output_feature_map(m) ==
    (feature_map_connection_count + output_feature_map_count - 1)
        \div output_feature_map_count + m

max_connections_without_division(m) == feature_map_connection_count + m

max_connections_for_input_feature_map(m) ==
    (feature_map_connection_count + input_feature_map_count - 1)
        \div input_feature_map_count + m

OverflowLoose(cap) == cap + 2

\* std::max(cap + 1, static_cast<unsigned int>(cap * 1.01F)); the float
\* product truncated is floor(cap * 101 / 100) for the caps of the model
Overflow(cap) == Max(cap + 1, (cap * 101) \div 100)

max_connections_for_output_feature_map_overflow(m) ==
    Overflow(max_connections_for_output_feature_map(m))

max_connections_for_input_feature_map_overflow(m) ==
    Overflow(max_connections_for_input_feature_map(m))

\* number of true entries of row o / column n of a flat matrix
RowCount(mat, o) == Cardinality({n \in InIds : mat[MatrixIndex(o, n)]})
ColCount(mat, n) == Cardinality({o \in OutIds : mat[MatrixIndex(o, n)]})

RECURSIVE AvailableFrom(_, _, _, _)
\* for (i = from; i < count; ++i) if (counts[i] < cap) list.push_back(i)
AvailableFrom(from, count, counts, cap) ==
    IF from >= count THEN <<>>
    ELSE (IF counts[from] < cap THEN <<from>> ELSE <<>>)
         \o AvailableFrom(from + 1, count, counts, cap)

Contains(list, x) == \E k \in 1 .. Len(list) : list[k] = x

EraseNothing(list, x) == list

\* list.erase(std::find(list.begin(), list.end(), x)) for an x in the list
Erase(list, x) ==
    LET at == CHOOSE k \in 1 .. Len(list) :
                  list[k] = x /\ \A j \in 1 .. k - 1 : list[j] # x
    IN  SubSeq(list, 1, at - 1) \o SubSeq(list, at + 1, Len(list))

LoopHeadOverflowOnly(next_i, strict) ==
    IF next_i < feature_map_connection_count THEN "tier3" ELSE "exit"

LoopHeadStrictFirst(next_i, strict) ==
    IF next_i < feature_map_connection_count THEN "tier1" ELSE "exit"

\* where the for loop over i stands after its header's test
LoopHead(next_i, strict) ==
    IF next_i < feature_map_connection_count
    THEN (IF strict THEN "tier1" ELSE "tier3")
    ELSE "exit"

\* lines 341-389: the start of one pass of while(true)
BeginAttempt ==
    /\ pc = "attempt"
    /\ LET lm == connection_matrix
           ocl == [o \in OutIds |-> RowCount(lm, o)]
           icl == [n \in InIds |-> ColCount(lm, n)]
           initial_connection_count ==
               Cardinality({k \in DOMAIN lm : lm[k]})
       IN  /\ local_connection_matrix' = lm
           /\ output_feature_map_connection_count_list' = ocl
           /\ input_feature_map_connection_count_list' = icl
           /\ output_feature_map_id_available_list' =
                  AvailableFrom(0, output_feature_map_count, ocl,
                                max_connections_for_output_feature_map(margin))
           /\ output_feature_map_id_available_overflow_list' =
                  AvailableFrom(0, output_feature_map_count, ocl,
                                max_connections_for_output_feature_map_overflow(margin))
           /\ input_feature_map_id_available_list' =
                  AvailableFrom(0, input_feature_map_count, icl,
                                max_connections_for_input_feature_map(margin))
           /\ input_feature_map_id_available_overflow_list' =
                  AvailableFrom(0, input_feature_map_count, icl,
                                max_connections_for_input_feature_map_overflow(margin))
           /\ explore_strict' = TRUE
           /\ should_retry_with_larger_margin' = FALSE
           /\ current_output_feature_map_index' = 0
           /\ i' = initial_connection_count
           /\ attempt_id' = 0
           /\ pc' = LoopHead(initial_connection_count, TRUE)
    /\ UNCHANGED <<other_vars, layer_vars, call, connection_matrix, margin, data_custom>>

\* a read past the end of a vector, or an erase of end(): undefined behaviour
Undefined ==
    /\ pc' = "undefined"
    /\ UNCHANGED <<other_vars, layer_vars, call, gen_vars, data_custom>>

\* lines 429-454: the found branch, then ++i and the loop header
Place(o, n, strict) ==
    LET oc == output_feature_map_connection_count_list[o] + 1
        ic == input_feature_map_connection_count_list[n] + 1
        out_strict == oc = max_connections_for_output_feature_map(margin)
        out_over == ~out_strict
                    /\ oc = max_connections_for_output_feature_map_overflow(margin)
        in_strict == ic = max_connections_for_input_feature_map(margin)
        in_over == ~in_strict
                   /\ ic = max_connections_for_input_feature_map_overflow(margin)
    IN  IF \/ out_strict /\ ~Contains(output_feature_map_id_available_list, o)
           \/ out_over /\ ~Contains(output_feature_map_id_available_overflow_list, o)
           \/ in_strict /\ ~Contains(input_feature_map_id_available_list, n)
           \/ in_over /\ ~Contains(input_feature_map_id_available_overflow_list, n)
        THEN Undefined
        ELSE LET oal == IF out_strict
                        THEN Erase(output_feature_map_id_available_list, o)
                        ELSE output_feature_map_id_available_list
                 ial == IF in_strict
                        THEN Erase(input_feature_map_id_available_list, n)
                        ELSE input_feature_map_id_available_list
                 idx == IF out_strict
                        THEN current_output_feature_map_index
                        ELSE current_output_feature_map_index + 1
                 es == IF strict THEN oal # <<>> /\ ial # <<>> ELSE FALSE
             IN  /\ local_connection_matrix' =
                        [local_connection_matrix EXCEPT ![MatrixIndex(o, n)] = TRUE]
                 /\ output_feature_map_connection_count_list' =
                        [output_feature_map_connection_count_list EXCEPT ![o] = oc]
                 /\ input_feature_map_connection_count_list' =
                        [input_feature_map_connection_count_list EXCEPT ![n] = ic]
                 /\ output_feature_map_id_available_list' = oal
                 /\ input_feature_map_id_available_list' = ial
                 /\ output_feature_map_id_available_overflow_list' =
                        IF out_over
                        THEN Erase(output_feature_map_id_available_overflow_list, o)
                        ELSE output_feature_map_id_available_overflow_list
                 /\ input_feature_map_id_available_overflow_list' =
                        IF in_over
                        THEN Erase(input_feature_map_id_available_overflow_list, n)
                        ELSE input_feature_map_id_available_overflow_list
                 /\ current_output_feature_map_index' =
                        IF oal # <<>> THEN idx % Len(oal) ELSE idx
                 /\ explore_strict' = es
                 /\ i' = i + 1
                 /\ attempt_id' = 0
                 /\ pc' = LoopHead(i + 1, es)
                 /\ UNCHANGED <<other_vars, layer_vars, call, connection_matrix, margin,
                                should_retry_with_larger_margin, data_custom>>

DrawsUpToSize(list) == 0 .. Len(list)

\* the indices a uniform_int_distribution(0, size - 1) can return; for an
\* empty list the range is 0 .. UINT_MAX, every index of it past the end
Draws(list) == IF list = <<>> THEN {0} ELSE 0 .. Len(list) - 1

FoundIgnoringMatrix(o, n) == TRUE

FoundInverted(o, n) == local_connection_matrix[MatrixIndex(o, n)]

\* found = !local_connection_matrix[o * input_count + n]
Found(o, n) == ~local_connection_matrix[MatrixIndex(o, n)]

\* lines 396-402: one pass of the first loop (cursor output, random input)
StrictCursorAttempt ==
    /\ pc = "tier1"
    /\ \E b \in Draws(input_feature_map_id_available_list) :
          IF \/ current_output_feature_map_index
                    >= Len(output_feature_map_id_available_list)
             \/ b >= Len(input_feature_map_id_available_list)
          THEN Undefined
          ELSE LET o == output_feature_map_id_available_list
                            [current_output_feature_map_index + 1]
                   n == input_feature_map_id_available_list[b + 1]
               IN  IF Found(o, n)
                   THEN Place(o, n, TRUE)
                   ELSE /\ attempt_id' = IF attempt_id + 1 < StrictCursorAttempts
                                         THEN attempt_id + 1 ELSE 0
                        /\ pc' = IF attempt_id + 1 < StrictCursorAttempts
                                 THEN "tier1" ELSE "tier2"
                        /\ UNCHANGED <<other_vars, layer_vars, call, connection_matrix, margin,
                                       local_connection_matrix,
                                       output_feature_map_connection_count_list,
                                       input_feature_map_connection_count_list,
                                       output_feature_map_id_available_list,
                                       output_feature_map_id_available_overflow_list,
                                       input_feature_map_id_available_list,
                                       input_feature_map_id_available_overflow_list,
                                       explore_strict,
                                       should_retry_with_larger_margin,
                                       current_output_feature_map_index, i,
                                       data_custom>>

\* lines 405-414: one pass of the second loop (both ends random, strict
\* lists); when it gives up, explore_strict = found = false
StrictRandomAttempt ==
    /\ pc = "tier2"
    /\ \E a \in Draws(output_feature_map_id_available_list),
          b \in Draws(input_feature_map_id_available_list) :
          IF \/ a >= Len(output_feature_map_id_available_list)
             \/ b >= Len(input_feature_map_id_available_list)
          THEN Undefined
          ELSE LET o == output_feature_map_id_available_list[a + 1]
                   n == input_feature_map_id_available_list[b + 1]
               IN  IF Found(o, n)
                   THEN Place(o, n, TRUE)
                   ELSE /\ attempt_id' = IF attempt_id + 1 < StrictRandomAttempts
                                         THEN attempt_id + 1 ELSE 0
                        /\ pc' = IF attempt_id + 1 < StrictRandomAttempts
                                 THEN "tier2" ELSE "tier3"
                        /\ explore_strict' =
                               IF attempt_id + 1 < StrictRandomAttempts
                               THEN explore_strict ELSE FALSE
                        /\ UNCHANGED <<other_vars, layer_vars, call, connection_matrix, margin,
                                       local_connection_matrix,
                                       output_feature_map_connection_count_list,
                                       input_feature_map_connection_count_list,
                                       output_feature_map_id_available_list,
                                       output_feature_map_id_available_overflow_list,
                                       input_feature_map_id_available_list,
                                       input_feature_map_id_available_overflow_list,
                                       should_retry_with_larger_margin,
                                       current_output_feature_map_index, i,
                                       data_custom>>

\* lines 417-427 and 455-459: one pass of the third loop (both ends random,
\* overflow lists); when it gives up, should_retry_with_larger_margin = true
\* and the for loop is left
OverflowAttempt ==
    /\ pc = "tier3"
    /\ \E a \in Draws(output_feature_map_id_available_overflow_list),
          b \in Draws(input_feature_map_id_available_overflow_list) :
          IF \/ a >= Len(output_feature_map_id_available_overflow_list)
             \/ b >= Len(input_feature_map_id_available_overflow_list)
          THEN Undefined
          ELSE LET o == output_feature_map_id_available_overflow_list[a + 1]
                   n == input_feature_map_id_available_overflow_list[b + 1]
               IN  IF Found(o, n)
                   THEN Place(o, n, explore_strict)
                   ELSE /\ attempt_id' = IF attempt_id + 1 < OverflowAttempts
                                         THEN attempt_id + 1 ELSE 0
                        /\ pc' = IF attempt_id + 1 < OverflowAttempts
                                 THEN "tier3" ELSE "exit"
                        /\ should_retry_with_larger_margin' =
                               (attempt_id + 1 >= OverflowAttempts)
                        /\ UNCHANGED <<other_vars, layer_vars, call, connection_matrix, margin,
                                       local_connection_matrix,
                                       output_feature_map_connection_count_list,
                                       input_feature_map_connection_count_list,
                                       output_feature_map_id_available_list,
                                       output_feature_map_id_available_overflow_list,
                                       input_feature_map_id_available_list,
                                       input_feature_map_id_available_overflow_list,
                                       explore_strict,
                                       current_output_feature_map_index, i,
                                       data_custom>>

\* lines 463-467: the attempt placed every edge; the matrix is handed back
Return ==
    /\ pc = "exit"
    /\ ~should_retry_with_larger_margin
    /\ connection_matrix' = local_connection_matrix
    /\ pc' = "returned"
    /\ UNCHANGED <<other_vars, layer_vars, call, margin, local_connection_matrix,
                   output_feature_map_connection_count_list,
                   input_feature_map_connection_count_list,
                   output_feature_map_id_available_list,
                   output_feature_map_id_available_overflow_list,
                   input_feature_map_id_available_list,
                   input_feature_map_id_available_overflow_list,
                   explore_strict, should_retry_with_larger_margin,
                   current_output_feature_map_index, i, attempt_id,
                   data_custom>>

\* line 469: ++margin and the next pass of while(true)
Retry ==
    /\ pc = "exit"
    /\ should_retry_with_larger_margin
    /\ margin' = IF margin < MaxMargin THEN margin + 1 ELSE margin
    /\ pc' = "attempt"
    /\ UNCHANGED <<other_vars, layer_vars, call, connection_matrix, local_connection_matrix,
                   output_feature_map_connection_count_list,
                   input_feature_map_connection_count_list,
                   output_feature_map_id_available_list,
                   output_feature_map_id_available_overflow_list,
                   input_feature_map_id_available_list,
                   input_feature_map_id_available_overflow_list,
                   explore_strict, should_retry_with_larger_margin,
                   current_output_feature_map_index, i, attempt_id,
                   data_custom>>

(***************************************************************************)
(* fill_data_custom                                                         *)
(***************************************************************************)
\* get_data_custom_config: the sizes of data_custom[0] and data_custom[1]
get_data_custom_config ==
    <<feature_map_connection_count, output_feature_map_count + 1>>

RECURSIVE RowColumnsDescending(_, _, _)
RowColumnsDescending(mat, o, n) ==
    IF n >= input_feature_map_count THEN <<>>
    ELSE RowColumnsDescending(mat, o, n + 1)
         \o (IF mat[MatrixIndex(o, n)] THEN <<n>> ELSE <<>>)

RECURSIVE RowColumns(_, _, _)
\* lines 484-491: the inner loop from input id n on; the columns it stores
RowColumns(mat, o, n) ==
    IF n >= input_feature_map_count THEN <<>>
    ELSE (IF mat[MatrixIndex(o, n)] THEN <<n>> ELSE <<>>)
         \o RowColumns(mat, o, n + 1)

RECURSIVE FillFrom(_, _, _, _)
\* lines 480-493: the outer loop from output id o on, given the columns
\* and the row offsets stored so far
FillFrom(mat, o, cols, rows) ==
    IF o >= output_feature_map_count
    THEN <<cols, Append(rows, Len(cols))>>
    ELSE FillFrom(mat, o + 1, cols \o RowColumns(mat, o, 0),
                  Append(rows, Len(cols)))

\* randomize_custom_data, lines 509-513: fill_data_custom on the buffers
\* sized by get_data_custom_config; a store past data_custom[0] is undefined
FillDataCustom ==
    /\ pc = "returned"
    /\ LET filled == FillFrom(connection_matrix, 0, <<>>, <<>>)
           size == get_data_custom_config[1]
       IN  IF Len(filled[1]) > size
           THEN Undefined
           ELSE /\ data_custom' =
                       <<[k \in 1 .. size |->
                             IF k <= Len(filled[1]) THEN filled[1][k] ELSE 0],
                         filled[2]>>
                /\ pc' = "filled"
                /\ UNCHANGED <<other_vars, layer_vars, call, gen_vars>>

\* the float 1.0F, in the representation of Ratios
DefaultScale == Ratio(2, 2)

\* the threads that call stat_data_bunch_writer::write
Threads == 1 .. MaxWriters

\* a thread outside write()
Idle == [pc |-> "idle"]

\* stat_data_bunch_writer::stat_data_bunch_writer (lines 21-24): entry_count
\* 0, both maps empty, the mutex free (0), no thread in write()
WriterConstructed ==
    /\ layer_name_to_running_stat_list_map = <<>>
    /\ layer_name_to_neuron_count_per_feature_map_map = <<>>
    /\ entry_count = 0
    /\ update_stat_mutex = 0
    /\ writers = [t \in Threads |-> Idle]
    /\ written = <<>>

\* the objects a run of the sparse convolution does not use
OtherInit ==
    /\ scale = DefaultScale
    /\ WriterConstructed

(***************************************************************************)
(* The generator run by randomize_custom_data on a layer that passed        *)
(* check(), with feature-map counts of at least 1.                          *)
(***************************************************************************)
GenInit ==
    /\ window_sizes = <<>>
    /\ left_zero_padding = <<>>
    /\ right_zero_padding = <<>>
    /\ strides = <<>>
    /\ output_feature_map_count \in 1 .. MaxOutputCount
    /\ input_feature_map_count \in 1 .. MaxInputCount
    /\ feature_map_connection_count \in
           Max(output_feature_map_count, input_feature_map_count)
               .. output_feature_map_count * input_feature_map_count
    /\ feature_map_connection_count <= MaxConnectionCount
    /\ feature_map_connection_sparsity_ratio = CountForm
    /\ bias = TRUE
    /\ pc = "attempt"
    /\ call = [op |-> "randomize_custom_data"]
    /\ connection_matrix =
           EmptyMatrix(output_feature_map_count, input_feature_map_count)
    /\ margin = 0
    /\ local_connection_matrix = connection_matrix
    /\ output_feature_map_connection_count_list = <<>>
    /\ input_feature_map_connection_count_list = <<>>
    /\ output_feature_map_id_available_list = <<>>
    /\ output_feature_map_id_available_overflow_list = <<>>
    /\ input_feature_map_id_available_list = <<>>
    /\ input_feature_map_id_available_overflow_list = <<>>
    /\ explore_strict = TRUE
    /\ should_retry_with_larger_margin = FALSE
    /\ current_output_feature_map_index = 0
    /\ i = 0
    /\ attempt_id = 0
    /\ data_custom = <<>>
    /\ OtherInit

Init == GenInit

Next ==
    \/ BeginAttempt
    \/ StrictCursorAttempt
    \/ StrictRandomAttempt
    \/ OverflowAttempt
    \/ Return
    \/ Retry
    \/ FillDataCustom

Spec == Init /\ [][Next]_vars

\* the generator under fair random draws: the run goes on while a step is
\* possible, and a draw that places edge number k, possible again and
\* again, is eventually made
PlaceEdge(k) ==
    /\ i = k
    /\ (StrictCursorAttempt \/ StrictRandomAttempt \/ OverflowAttempt)
    /\ i' = k + 1

FairSpec ==
    /\ Init
    /\ [][Next]_vars
    /\ WF_vars(Next)
    /\ \A k \in 0 .. MaxConnectionCount : SF_vars(PlaceEdge(k))

(***************************************************************************)
(* The layer: construction, validation, deserialization                     *)
(***************************************************************************)
\* the sequences over S of length 0 .. n
SeqsUpTo(S, n) == UNION {[1 .. k -> S] : k \in 0 .. n}

\* vector::resize(n, v) of an empty vector
Filled(n, v) == [k \in 1 .. n |-> v]

\* this
Layer ==
    [window_sizes |-> window_sizes,
     left_zero_padding |-> left_zero_padding,
     right_zero_padding |-> right_zero_padding,
     strides |-> strides,
     input_feature_map_count |-> input_feature_map_count,
     output_feature_map_count |-> output_feature_map_count,
     feature_map_connection_sparsity_ratio |->
         feature_map_connection_sparsity_ratio,
     feature_map_connection_count |-> feature_map_connection_count,
     bias |-> bias]

SetLayer(l) ==
    /\ window_sizes' = l.window_sizes
    /\ left_zero_padding' = l.left_zero_padding
    /\ right_zero_padding' = l.right_zero_padding
    /\ strides' = l.strides
    /\ input_feature_map_count' = l.input_feature_map_count
    /\ output_feature_map_count' = l.output_feature_map_count
    /\ feature_map_connection_sparsity_ratio' =
           l.feature_map_connection_sparsity_ratio
    /\ feature_map_connection_count' = l.feature_map_connection_count
    /\ bias' = l.bias

checkPaddingOffByOne(l) ==
    IF \E k \in 1 .. Len(l.window_sizes) : l.window_sizes[k] = 0
    THEN "window_sizes"
    ELSE IF l.feature_map_connection_count < l.input_feature_map_count
    THEN "feature_map_connection_count < input_feature_map_count"
    ELSE IF l.feature_map_connection_count < l.output_feature_map_count
    THEN "feature_map_connection_count < output_feature_map_count"
    ELSE IF l.feature_map_connection_count
                > U32(l.input_feature_map_count * l.output_feature_map_count)
    THEN "feature_map_connection_count > dense"
    ELSE IF \E k \in 1 .. Len(l.window_sizes) :
                l.left_zero_padding[k] > l.window_sizes[k]
    THEN "left_zero_padding"
    ELSE IF \E k \in 1 .. Len(l.window_sizes) :
                l.right_zero_padding[k] > l.window_sizes[k]
    THEN "right_zero_padding"
    ELSE IF \E k \in 1 .. Len(l.strides) : l.strides[k] = 0
    THEN "strides"
    ELSE "none"

\* lines 114-138: the exception check() throws, named by the failing
\* field, or "none"
check(l) ==
    IF \E k \in 1 .. Len(l.window_sizes) : l.window_sizes[k] = 0
    THEN "window_sizes"
    ELSE IF l.feature_map_connection_count < l.input_feature_map_count
    THEN "feature_map_connection_count < input_feature_map_count"
    ELSE IF l.feature_map_connection_count < l.output_feature_map_count
    THEN "feature_map_connection_count < output_feature_map_count"
    ELSE IF l.feature_map_connection_count
                > U32(l.input_feature_map_count * l.output_feature_map_count)
    THEN "feature_map_connection_count > dense"
    ELSE IF \E k \in 1 .. Len(l.window_sizes) :
                l.left_zero_padding[k] >= l.window_sizes[k]
    THEN "left_zero_padding"
    ELSE IF \E k \in 1 .. Len(l.window_sizes) :
                l.right_zero_padding[k] >= l.window_sizes[k]
    THEN "right_zero_padding"
    ELSE IF \E k \in 1 .. Len(l.strides) : l.strides[k] = 0
    THEN "strides"
    ELSE "none"

\* the significand of a float
SignificandBits == 24

\* the number of binary digits of h > 0
BitLength(h) == CHOOSE k \in 1 .. 30 : 2^(k - 1) <= h /\ h < 2^k

\* The float nearest to h / 2, again as a number of halves: round to nearest,
\* ties to even.  Every float of the model is a multiple of 1/2 below 2^29.
Single(h) ==
    IF h < 2^SignificandBits
    THEN h
    ELSE LET ulp == 2^(BitLength(h) - SignificandBits)
             q == h \div ulp
             r == h % ulp
         IN  IF 2 * r < ulp \/ (2 * r = ulp /\ q % 2 = 0)
             THEN q * ulp
             ELSE (q + 1) * ulp

\* static_cast<unsigned int>(input_feature_map_count *
\* output_feature_map_count * ratio + 0.5F) for a ratio num / den >= 0 with
\* den 1 or 2: the unsigned product is converted to float, multiplied by
\* the ratio and increased by one half, each in single precision, and the
\* sum is truncated
SingleConnectionCount(ifm, ofm, ratio) ==
    LET product == Single(2 * U32(ifm * ofm))
        scaled == Single((product * ratio.num) \div ratio.den)
        sum == Single(scaled + 1)
    IN  U32(sum \div 2)

\* line 86
ConstructorConnectionCount(ifm, ofm, ratio) ==
    SingleConnectionCount(ifm, ofm, ratio)

\* line 253: the same expression in read_proto
ReadProtoConnectionCount(ifm, ofm, ratio) ==
    SingleConnectionCount(ifm, ofm, ratio)

\* lines 48-68 and 89-109: the dimension-count tests and the defaults of
\* the constructors; the layer as it stands when check() is called, or the
\* runtime_error thrown before
WithDimensions(l, lzp, rzp, st) ==
    LET n == Len(l.window_sizes)
    IN  IF Len(lzp) # 0 /\ Len(lzp) # n
        THEN [error |-> "left zero padding dimension count", layer |-> l]
        ELSE IF Len(rzp) # 0 /\ Len(rzp) # n
        THEN [error |-> "right zero padding dimension count", layer |-> l]
        ELSE IF Len(st) # 0 /\ Len(st) # n
        THEN [error |-> "strides dimension count", layer |-> l]
        ELSE [error |-> "none",
              layer |-> [l EXCEPT
                  !.left_zero_padding = IF lzp = <<>> THEN Filled(n, 0) ELSE lzp,
                  !.right_zero_padding = IF rzp = <<>> THEN Filled(n, 0) ELSE rzp,
                  !.strides = IF st = <<>> THEN Filled(n, 1) ELSE st]]

\* the outcome of a constructor: the layer built, or the exception
Constructed(l, lzp, rzp, st) ==
    LET dims == WithDimensions(l, lzp, rzp, st)
    IN  IF dims.error # "none" THEN dims
        ELSE [error |-> check(dims.layer), layer |-> dims.layer]

\* the members before the constructor body runs (lines 41-46, 82-87)
Members(ws, ifm, ofm, ratio, count, b) ==
    [window_sizes |-> ws,
     left_zero_padding |-> <<>>,
     right_zero_padding |-> <<>>,
     strides |-> <<>>,
     input_feature_map_count |-> ifm,
     output_feature_map_count |-> ofm,
     feature_map_connection_sparsity_ratio |-> ratio,
     feature_map_connection_count |-> count,
     bias |-> b]

\* window lists of up to MaxDims dimensions, and the largest window in one
\* dimension more
WindowArgs ==
    SeqsUpTo(0 .. MaxWindow, MaxDims) \cup {Filled(MaxDims + 1, MaxWindow)}

PaddingArgs == SeqsUpTo(0 .. MaxPadding, MaxDims)
StrideArgs == SeqsUpTo(0 .. MaxStride, MaxDims)
FeatureMapCounts == 1 .. MaxFeatureMaps
ConnectionCounts == 0 .. MaxConnectionCount
\* the ratios 0, 1/2, 1, 3/2, ..
Ratios == {Ratio(n, 2) : n \in 0 .. MaxNumerator}

\* the smallest count whose square no float holds
LargeFeatureMapCount == 2^(SignificandBits \div 2) + 1

\* the counts given to the constructor taking a ratio
RatioFeatureMapCounts == FeatureMapCounts \cup {LargeFeatureMapCount}

\* lines 32-71: the constructor taking feature_map_connection_count
ConstructWithCount ==
    /\ pc = "new"
    /\ \E ws \in WindowArgs, lzp \in PaddingArgs, rzp \in PaddingArgs,
          st \in StrideArgs, ifm \in FeatureMapCounts, ofm \in FeatureMapCounts,
          count \in ConnectionCounts, b \in BOOLEAN :
          LET res == Constructed(Members(ws, ifm, ofm, CountForm, count, b),
                                 lzp, rzp, st)
          IN  /\ SetLayer(res.layer)
              /\ pc' = IF res.error = "none" THEN "ready" ELSE "failed"
              /\ call' = [op |-> "constructor", form |-> "count",
                          window_sizes |-> ws, left_zero_padding |-> lzp,
                          right_zero_padding |-> rzp, strides |-> st,
                          input_feature_map_count |-> ifm,
                          output_feature_map_count |-> ofm,
                          feature_map_connection_count |-> count,
                          bias |-> b, error |-> res.error]
    /\ UNCHANGED <<other_vars, gen_vars, data_custom>>

\* lines 73-112: the constructor taking feature_map_connection_sparsity_ratio
ConstructWithRatio ==
    /\ pc = "new"
    /\ \E ws \in WindowArgs, lzp \in PaddingArgs, rzp \in PaddingArgs,
          st \in StrideArgs, ifm \in RatioFeatureMapCounts,
          ofm \in RatioFeatureMapCounts, ratio \in Ratios, b \in BOOLEAN :
          LET res == Constructed(
                         Members(ws, ifm, ofm, ratio,
                                 ConstructorConnectionCount(ifm, ofm, ratio), b),
                         lzp, rzp, st)
          IN  /\ SetLayer(res.layer)
              /\ pc' = IF res.error = "none" THEN "ready" ELSE "failed"
              /\ call' = [op |-> "constructor", form |-> "ratio",
                          window_sizes |-> ws, left_zero_padding |-> lzp,
                          right_zero_padding |-> rzp, strides |-> st,
                          input_feature_map_count |-> ifm,
                          output_feature_map_count |-> ofm,
                          feature_map_connection_sparsity_ratio |-> ratio,
                          bias |-> b, error |-> res.error]
    /\ UNCHANGED <<other_vars, gen_vars, data_custom>>

\* an optional field of a message: <<>> when not set, <<v>> when set to v
Optional(S) == {<<>>} \cup {<<v>> : v \in S}

has(field) == field # <<>>

\* the accessor of an optional field: its value, or the default of the schema
Get(field, default) == IF has(field) THEN field[1] ELSE default

\* the defaults of SparseConvolutionalParam's optional fields
DefaultBias == TRUE
DefaultPadding == 0
DefaultStride == 1

DimensionParams ==
    [kernel_size : 0 .. MaxWindow,
     left_padding : Optional(0 .. MaxPadding),
     right_padding : Optional(0 .. MaxPadding),
     stride : Optional(0 .. MaxStride)]

\* a protobuf::Layer as read_proto sees it
LayerProtos ==
    {[has_sparse_convolution_param |-> FALSE]}
    \cup
    [has_sparse_convolution_param : {TRUE},
     input_feature_map_count : FeatureMapCounts,
     output_feature_map_count : FeatureMapCounts,
     bias : Optional(BOOLEAN),
     dimension_param : SeqsUpTo(DimensionParams, MaxDims),
     feature_map_connection_count : Optional(ConnectionCounts),
     feature_map_connection_sparsity_ratio : Optional(Ratios)]

\* lines 222-258: the layer read_proto leaves behind and the exception it
\* throws ("none" when it returns)
ReadProtoResult(l, proto) ==
    IF ~proto.has_sparse_convolution_param
    THEN [error |-> "sparse_convolution_param", layer |-> l]
    ELSE LET n == Len(proto.dimension_param)
             read ==
                 [l EXCEPT
                     !.input_feature_map_count = proto.input_feature_map_count,
                     !.output_feature_map_count = proto.output_feature_map_count,
                     !.bias = Get(proto.bias, DefaultBias),
                     !.window_sizes =
                         [k \in 1 .. n |-> proto.dimension_param[k].kernel_size],
                     !.left_zero_padding =
                         [k \in 1 .. n |->
                             Get(proto.dimension_param[k].left_padding,
                                 DefaultPadding)],
                     !.right_zero_padding =
                         [k \in 1 .. n |->
                             Get(proto.dimension_param[k].right_padding,
                                 DefaultPadding)],
                     !.strides =
                         [k \in 1 .. n |->
                             Get(proto.dimension_param[k].stride, DefaultStride)]]
         IN  IF has(proto.feature_map_connection_count)
             THEN LET full == [read EXCEPT
                          !.feature_map_connection_sparsity_ratio = CountForm,
                          !.feature_map_connection_count =
                              proto.feature_map_connection_count[1]]
                  IN  [error |-> check(full), layer |-> full]
             ELSE IF has(proto.feature_map_connection_sparsity_ratio)
             THEN LET ratio == proto.feature_map_connection_sparsity_ratio[1]
                      full == [read EXCEPT
                          !.feature_map_connection_sparsity_ratio = ratio,
                          !.feature_map_connection_count =
                              ReadProtoConnectionCount(
                                  read.input_feature_map_count,
                                  read.output_feature_map_count, ratio)]
                  IN  [error |-> check(full), layer |-> full]
             ELSE [error |-> "sparsity pattern", layer |-> read]

\* read_proto on the instance the factory has made
ReadProto ==
    /\ pc = "new"
    /\ \E proto \in LayerProtos :
          LET res == ReadProtoResult(Layer, proto)
          IN  /\ SetLayer(res.layer)
              /\ pc' = IF res.error = "none" THEN "ready" ELSE "failed"
              /\ call' = [op |-> "read_proto", proto |-> proto,
                          error |-> res.error]
    /\ UNCHANGED <<other_vars, gen_vars, data_custom>>

(***************************************************************************)
(* The layer: shape inference and weight-store sizing                       *)
(***************************************************************************)
\* layer_configuration_specific
Shape(fm, dims) == [feature_map_count |-> fm, dimension_sizes |-> dims]

Shapes ==
    {Shape(fm, dims) : fm \in FeatureMapCounts,
                       dims \in SeqsUpTo(0 .. MaxSize, MaxDims + 1)}

RECURSIVE OutputSizesWithoutRightPadding(_, _, _, _)
OutputSizesWithoutRightPadding(l, input, k, sizes) ==
    IF k > Len(l.window_sizes)
    THEN [error |-> "none", dimension_sizes |-> sizes]
    ELSE LET total_input_dimension_size ==
                 U32(input.dimension_sizes[k] + l.left_zero_padding[k])
         IN  IF total_input_dimension_size < l.window_sizes[k]
             THEN [error |-> "too small total dimension size",
                   dimension_sizes |-> sizes]
             ELSE OutputSizesWithoutRightPadding(l, input, k + 1,
                      Append(sizes,
                             U32((total_input_dimension_size - l.window_sizes[k])
                                     \div l.strides[k] + 1)))

RECURSIVE OutputSizesFrom(_, _, _, _)
\* lines 160-168: the loop from dimension k on (k counts from 1), given
\* the sizes pushed so far; the exception names the dimension
OutputSizesFrom(l, input, k, sizes) ==
    IF k > Len(l.window_sizes)
    THEN [error |-> "none", dimension_sizes |-> sizes]
    ELSE LET total_input_dimension_size ==
                 U32(U32(input.dimension_sizes[k] + l.left_zero_padding[k])
                         + l.right_zero_padding[k])
         IN  IF total_input_dimension_size < l.window_sizes[k]
             THEN [error |-> "too small total dimension size",
                   dimension_sizes |-> sizes]
             ELSE OutputSizesFrom(l, input, k + 1,
                      Append(sizes,
                             U32((total_input_dimension_size - l.window_sizes[k])
                                     \div l.strides[k] + 1)))

\* lines 150-171: the shape returned, or the exception thrown
get_output_layer_configuration_specific(l, input) ==
    IF input.feature_map_count # l.input_feature_map_count
    THEN [error |-> "feature map count"]
    ELSE IF Len(input.dimension_sizes) # Len(l.window_sizes)
    THEN [error |-> "dimension count"]
    ELSE LET res == OutputSizesFrom(l, input, 1, <<>>)
         IN  IF res.error # "none" THEN [error |-> res.error]
             ELSE [error |-> "none",
                   shape |-> Shape(l.output_feature_map_count,
                                   res.dimension_sizes)]

get_input_forgetting_right_padding(l, output) ==
    IF output.feature_map_count # l.output_feature_map_count
    THEN [error |-> "feature map count"]
    ELSE IF Len(output.dimension_sizes) # Len(l.window_sizes)
    THEN [error |-> "dimension count"]
    ELSE [error |-> "none",
          supported |-> TRUE,
          shape |-> Shape(l.output_feature_map_count,
                       [k \in 1 .. Len(l.window_sizes) |->
                           U32((output.dimension_sizes[k] - 1) * l.strides[k]
                               + l.window_sizes[k] - l.left_zero_padding[k])])]

\* lines 173-190: the value returned with the shape stored, or the
\* exception thrown.  The unsigned expression of line 187 is the integer
\* one taken modulo the word size.
get_input_layer_configuration_specific(l, output) ==
    IF output.feature_map_count # l.output_feature_map_count
    THEN [error |-> "feature map count"]
    ELSE IF Len(output.dimension_sizes) # Len(l.window_sizes)
    THEN [error |-> "dimension count"]
    ELSE [error |-> "none",
          supported |-> TRUE,
          shape |-> Shape(l.output_feature_map_count,
                       [k \in 1 .. Len(l.window_sizes) |->
                           U32((output.dimension_sizes[k] - 1) * l.strides[k]
                               + l.window_sizes[k] - l.left_zero_padding[k]
                               - l.right_zero_padding[k])])]

RECURSIVE WeightCountFrom(_, _, _)
\* line 266: weight_count *= x for the window sizes from the k-th on
WeightCountFrom(l, k, weight_count) ==
    IF k > Len(l.window_sizes) THEN weight_count
    ELSE WeightCountFrom(l, k + 1, U32(weight_count * l.window_sizes[k]))

get_data_config_bias_per_input(l) ==
    <<WeightCountFrom(l, 1, l.feature_map_connection_count)>>
    \o (IF l.bias THEN <<l.input_feature_map_count>> ELSE <<>>)

\* lines 261-273
get_data_config(l) ==
    <<WeightCountFrom(l, 1, l.feature_map_connection_count)>>
    \o (IF l.bias THEN <<l.output_feature_map_count>> ELSE <<>>)

\* The operations below are const member functions: they leave the instance
\* as it is, so a call on the instance as constructed stands for the same
\* call at any later time.
JustConstructed == pc = "ready" /\ call.op \in {"constructor", "read_proto"}

\* get_output_layer_configuration_specific called on the layer
GetOutputConfiguration ==
    /\ JustConstructed
    /\ \E input \in Shapes :
          call' = [op |-> "get_output_layer_configuration_specific",
                   input |-> input,
                   result |-> get_output_layer_configuration_specific(Layer, input)]
    /\ UNCHANGED <<other_vars, layer_vars, pc, gen_vars, data_custom>>

\* get_input_layer_configuration_specific called on the layer
GetInputConfiguration ==
    /\ JustConstructed
    /\ \E output \in Shapes :
          call' = [op |-> "get_input_layer_configuration_specific",
                   output |-> output,
                   result |-> get_input_layer_configuration_specific(Layer, output)]
    /\ UNCHANGED <<other_vars, layer_vars, pc, gen_vars, data_custom>>

\* get_input_layer_configuration_specific called with the shape that
\* get_output_layer_configuration_specific has just returned
GetInputOfOutput ==
    /\ pc = "ready"
    /\ call.op = "get_output_layer_configuration_specific"
    /\ call.result.error = "none"
    /\ call' = [op |-> "round trip",
                input |-> call.input,
                output |-> call.result.shape,
                result |-> get_input_layer_configuration_specific(
                               Layer, call.result.shape)]
    /\ UNCHANGED <<other_vars, layer_vars, pc, gen_vars, data_custom>>

\* get_data_config called on the layer
GetDataConfig ==
    /\ JustConstructed
    /\ call' = [op |-> "get_data_config", result |-> get_data_config(Layer)]
    /\ UNCHANGED <<other_vars, layer_vars, pc, gen_vars, data_custom>>

write_proto_with_count_only(l) ==
    [has_sparse_convolution_param |-> TRUE,
     output_feature_map_count |-> l.output_feature_map_count,
     input_feature_map_count |-> l.input_feature_map_count,
     bias |-> IF ~l.bias THEN <<FALSE>> ELSE <<>>,
     feature_map_connection_sparsity_ratio |-> <<>>,
     feature_map_connection_count |-> <<l.feature_map_connection_count>>,
     dimension_param |->
         [k \in 1 .. Len(l.window_sizes) |->
             [kernel_size |-> l.window_sizes[k],
              left_padding |-> IF l.left_zero_padding[k] > 0
                               THEN <<l.left_zero_padding[k]>> ELSE <<>>,
              right_padding |-> IF l.right_zero_padding[k] > 0
                                THEN <<l.right_zero_padding[k]>> ELSE <<>>,
              stride |-> IF l.strides[k] > 1 THEN <<l.strides[k]>> ELSE <<>>]]]

\* lines 192-218: the message write_proto fills, starting from an empty one
write_proto(l) ==
    [has_sparse_convolution_param |-> TRUE,
     output_feature_map_count |-> l.output_feature_map_count,
     input_feature_map_count |-> l.input_feature_map_count,
     bias |-> IF ~l.bias THEN <<FALSE>> ELSE <<>>,
     feature_map_connection_sparsity_ratio |->
         IF l.feature_map_connection_sparsity_ratio.num >= 0
         THEN <<l.feature_map_connection_sparsity_ratio>> ELSE <<>>,
     feature_map_connection_count |->
         IF l.feature_map_connection_sparsity_ratio.num >= 0
         THEN <<>> ELSE <<l.feature_map_connection_count>>,
     dimension_param |->
         [k \in 1 .. Len(l.window_sizes) |->
             [kernel_size |-> l.window_sizes[k],
              left_padding |-> IF l.left_zero_padding[k] > 0
                               THEN <<l.left_zero_padding[k]>> ELSE <<>>,
              right_padding |-> IF l.right_zero_padding[k] > 0
                                THEN <<l.right_zero_padding[k]>> ELSE <<>>,
              stride |-> IF l.strides[k] > 1 THEN <<l.strides[k]>> ELSE <<>>]]]

\* another instance, for read_proto to fill: window 2, 2 x 2 feature maps,
\* ratio 1.0F, no bias
AnotherLayer ==
    Constructed(Members(<<2>>, 2, 2, Ratio(2, 2), 4, FALSE),
                <<1>>, <<1>>, <<2>>).layer

\* write_proto of the layer into an empty message, then read_proto of the
\* message on another instance
WriteThenReadProto ==
    /\ JustConstructed
    /\ call' = [op |-> "write_proto read_proto",
                proto |-> write_proto(Layer),
                result |-> ReadProtoResult(AnotherLayer, write_proto(Layer))]
    /\ UNCHANGED <<other_vars, layer_vars, pc, gen_vars, data_custom>>

RECURSIVE NeuronCountFrom(_, _, _)
\* layer_configuration_specific::get_neuron_count_per_feature_map: the
\* product of the dimension sizes from the k-th on, in unsigned int
NeuronCountFrom(dimension_sizes, k, count) ==
    IF k > Len(dimension_sizes) THEN count
    ELSE NeuronCountFrom(dimension_sizes, k + 1, U32(count * dimension_sizes[k]))

get_neuron_count_per_feature_map(config) ==
    NeuronCountFrom(config.dimension_sizes, 1, 1)

\* layer_configuration_specific::get_neuron_count
get_neuron_count(config) ==
    U32(config.feature_map_count * get_neuron_count_per_feature_map(config))

\* layer_action::action_type: the three compute phases, and one more
ActionTypes ==
    {"forward", "backward_data", "backward_weights", "update_weights"}

\* static_cast<float>(a) * static_cast<float>(b) of two unsigned ints: the
\* float nearest to the product of the floats nearest to a and to b; the
\* floats of the model here are integers
FloatProduct(a, b) ==
    Single(2 * (Single(2 * a) \div 2) * (Single(2 * b) \div 2)) \div 2

RECURSIVE PerItemFlopsFrom(_, _, _)
\* line 528: per_item_flops *= x for the window sizes from the k-th on
PerItemFlopsFrom(l, k, per_item_flops) ==
    IF k > Len(l.window_sizes) THEN per_item_flops
    ELSE PerItemFlopsFrom(l, k + 1, U32(per_item_flops * l.window_sizes[k]))

get_flops_per_entry_ignoring_bias(l, input, action_type) ==
    IF action_type \in {"forward", "backward_data", "backward_weights"}
    THEN LET output == get_output_layer_configuration_specific(l, input)
         IN  IF output.error # "none"
             THEN [error |-> output.error]
             ELSE [error |-> "none",
                   flops |-> FloatProduct(
                       get_neuron_count_per_feature_map(output.shape),
                       PerItemFlopsFrom(l, 1, U32(l.feature_map_connection_count * 2)))]
    ELSE [error |-> "none", flops |-> 0]

\* lines 516-536 (sparse_convolution_layer): the value returned, or the
\* exception of get_output_layer_configuration_specific
get_flops_per_entry(l, input, action_type) ==
    IF action_type \in {"forward", "backward_data", "backward_weights"}
    THEN LET output == get_output_layer_configuration_specific(l, input)
             per_item_flops ==
                 PerItemFlopsFrom(l, 1, U32(l.feature_map_connection_count * 2))
         IN  IF output.error # "none"
             THEN [error |-> output.error]
             ELSE [error |-> "none",
                   flops |-> FloatProduct(
                       get_neuron_count_per_feature_map(output.shape),
                       IF l.bias THEN per_item_flops
                       ELSE U32(per_item_flops - 1))]
    ELSE [error |-> "none", flops |-> 0]

\* get_flops_per_entry called on the layer
GetFlops ==
    /\ JustConstructed
    /\ \E input \in Shapes, action_type \in ActionTypes :
          call' = [op |-> "get_flops_per_entry",
                   input |-> input, action_type |-> action_type,
                   result |-> get_flops_per_entry(Layer, input, action_type)]
    /\ UNCHANGED <<other_vars, layer_vars, pc, gen_vars, data_custom>>

(***************************************************************************)
(* negative_log_likelihood_layer                                            *)
(***************************************************************************)
\* the shapes given to the loss layer: up to MaxDims + 1 dimensions of
\* sizes 1 .. MaxLossSize
LossShapes ==
    {Shape(fm, dims) : fm \in FeatureMapCounts,
                       dims \in SeqsUpTo(1 .. MaxLossSize, MaxDims + 1)}

\* input_configuration_specific_list: the two inputs, with or without the
\* scaling input
LossInputLists == [1 .. 2 -> LossShapes] \cup [1 .. 3 -> LossShapes]

nll_get_output_ignoring_neuron_counts(inputs) ==
    IF inputs[1].feature_map_count # inputs[2].feature_map_count
    THEN [error |-> "feature map counts don't match"]
    ELSE IF Len(inputs) > 2 /\ inputs[3].feature_map_count # 1
    THEN [error |-> "scaling feature map count"]
    ELSE [error |-> "none", shape |-> Shape(1, inputs[1].dimension_sizes)]

\* lines 45-63: the shape returned, or the exception thrown
nll_get_output_layer_configuration_specific(inputs) ==
    IF inputs[1].feature_map_count # inputs[2].feature_map_count
    THEN [error |-> "feature map counts don't match"]
    ELSE IF get_neuron_count_per_feature_map(inputs[1])
                # get_neuron_count_per_feature_map(inputs[2])
    THEN [error |-> "neuron count per feature map mismatch"]
    ELSE IF Len(inputs) > 2 /\ inputs[3].feature_map_count # 1
    THEN [error |-> "scaling feature map count"]
    ELSE IF /\ Len(inputs) > 2
            /\ get_neuron_count_per_feature_map(inputs[3])
                   # get_neuron_count_per_feature_map(inputs[1])
    THEN [error |-> "scaling neuron count per feature map"]
    ELSE [error |-> "none", shape |-> Shape(1, inputs[1].dimension_sizes)]

\* lines 30-33: negative_log_likelihood_layer(scale)
ConstructLoss ==
    /\ pc = "new"
    /\ \E s \in Ratios :
          /\ scale' = s
          /\ call' = [op |-> "nll constructor", scale |-> s]
    /\ pc' = "loss"
    /\ UNCHANGED <<writer_vars, layer_vars, gen_vars, data_custom>>

\* the loss layer as constructed; its operations below are const
LossJustConstructed == pc = "loss" /\ call.op = "nll constructor"

\* get_output_layer_configuration_specific called on the loss layer
LossGetOutputConfiguration ==
    /\ LossJustConstructed
    /\ \E inputs \in LossInputLists :
          call' = [op |-> "nll get_output_layer_configuration_specific",
                   inputs |-> inputs,
                   result |-> nll_get_output_layer_configuration_specific(inputs)]
    /\ UNCHANGED <<other_vars, layer_vars, pc, gen_vars, data_custom>>

\* NegativeLogLikelihoodParam.scale when the field is not set
DefaultParamScale == DefaultScale

\* lines 73-82: the message write_proto fills, starting from an empty one
nll_write_proto(s) ==
    IF s # DefaultScale
    THEN [has_negative_log_likelihood_param |-> TRUE, scale |-> <<s>>]
    ELSE [has_negative_log_likelihood_param |-> FALSE]

\* lines 84-95: the scale read_proto leaves behind
nll_read_proto(proto) ==
    IF ~proto.has_negative_log_likelihood_param
    THEN DefaultScale
    ELSE Get(proto.scale, DefaultParamScale)

\* write_proto of the loss layer into an empty message, then read_proto of
\* the message on another instance
LossWriteThenReadProto ==
    /\ LossJustConstructed
    /\ call' = [op |-> "nll write_proto read_proto",
                proto |-> nll_write_proto(scale),
                result |-> nll_read_proto(nll_write_proto(scale))]
    /\ UNCHANGED <<other_vars, layer_vars, pc, gen_vars, data_custom>>

\* a layer_action for a list of inputs: its type and, for backward_data,
\* the index (from 1) of the input to propagate to
LossActions(inputs) ==
    [action_type : ActionTypes \ {"backward_data"}, backprop_index : {1}]
    \cup [action_type : {"backward_data"}, backprop_index : 1 .. Len(inputs)]

\* lines 97-118 (negative_log_likelihood_layer): the value returned, or the
\* exception of get_output_layer_configuration_specific
nll_get_flops_per_entry(inputs, action) ==
    IF action.action_type = "forward"
    THEN LET output == nll_get_output_layer_configuration_specific(inputs)
         IN  IF output.error # "none"
             THEN [error |-> output.error]
             ELSE [error |-> "none",
                   flops |-> FloatProduct(get_neuron_count(output.shape),
                                          U32(inputs[1].feature_map_count * 3))]
    ELSE IF action.action_type = "backward_data"
    THEN [error |-> "none",
          flops |-> FloatProduct(get_neuron_count(inputs[action.backprop_index]),
                                 2)]
    ELSE [error |-> "none", flops |-> 0]

\* get_flops_per_entry called on the loss layer
LossGetFlops ==
    /\ LossJustConstructed
    /\ \E inputs \in LossInputLists :
          \E action \in LossActions(inputs) :
              call' = [op |-> "nll get_flops_per_entry",
                       inputs |-> inputs, action |-> action,
                       result |-> nll_get_flops_per_entry(inputs, action)]
    /\ UNCHANGED <<other_vars, layer_vars, pc, gen_vars, data_custom>>

(***************************************************************************)
(* The layer from its construction on.  The instance read_proto fills is    *)
(* the smallest valid layer.                                                *)
(***************************************************************************)
LayerInit ==
    /\ window_sizes = <<1>>
    /\ left_zero_padding = <<0>>
    /\ right_zero_padding = <<0>>
    /\ strides = <<1>>
    /\ input_feature_map_count = 1
    /\ output_feature_map_count = 1
    /\ feature_map_connection_sparsity_ratio = CountForm
    /\ feature_map_connection_count = 1
    /\ bias = TRUE
    /\ pc = "new"
    /\ call = [op |-> "none"]
    /\ connection_matrix = <<>>
    /\ margin = 0
    /\ local_connection_matrix = <<>>
    /\ output_feature_map_connection_count_list = <<>>
    /\ input_feature_map_connection_count_list = <<>>
    /\ output_feature_map_id_available_list = <<>>
    /\ output_feature_map_id_available_overflow_list = <<>>
    /\ input_feature_map_id_available_list = <<>>
    /\ input_feature_map_id_available_overflow_list = <<>>
    /\ explore_strict = TRUE
    /\ should_retry_with_larger_margin = FALSE
    /\ current_output_feature_map_index = 0
    /\ i = 0
    /\ attempt_id = 0
    /\ data_custom = <<>>
    /\ OtherInit

LayerNext ==
    \/ ConstructWithCount
    \/ ConstructWithRatio
    \/ ReadProto
    \/ GetOutputConfiguration
    \/ GetInputConfiguration
    \/ GetInputOfOutput
    \/ GetDataConfig
    \/ ConstructLoss
    \/ LossGetOutputConfiguration
    \/ GetFlops
    \/ LossGetFlops
    \/ WriteThenReadProto
    \/ LossWriteThenReadProto

LayerSpec == LayerInit /\ [][LayerNext]_vars

(***************************************************************************)
(* stat_data_bunch_writer                                                   *)
(***************************************************************************)
\* what the writer leaves alone
not_writer_vars == <<scale, layer_vars, pc, call, gen_vars, data_custom>>

\* the layers the writer is configured with
LayerNames == {"conv"}

\* the values of the neurons
NeuronValues == {-1, MaxNeuronValue}

\* std::numeric_limits<float>::max(): above every value written
FloatMax == 2^SignificandBits

\* running_stat::running_stat
InitialRunningStat ==
    [min_val |-> FloatMax, max_val |-> -FloatMax, sum |-> 0, sum_squared |-> 0]

\* the configurations of a layer: a shape of up to MaxFeatureMaps feature
\* maps of up to MaxNeurons neurons
WriterShapes ==
    {Shape(fm, <<n>>) : fm \in FeatureMapCounts, n \in 1 .. MaxNeurons}

\* lines 30-43: set_config_map, called once before the first write;
\* map::insert leaves an entry that is already there
SetConfigMap ==
    /\ DOMAIN layer_name_to_running_stat_list_map = {}
    /\ \A t \in Threads : writers[t].pc = "idle"
    /\ \E config_map \in [LayerNames -> WriterShapes] :
          /\ layer_name_to_running_stat_list_map' =
                 [name \in LayerNames |->
                     [f \in 1 .. config_map[name].feature_map_count |->
                         InitialRunningStat]]
          /\ layer_name_to_neuron_count_per_feature_map_map' =
                 [name \in LayerNames |->
                     IF name \in DOMAIN layer_name_to_neuron_count_per_feature_map_map
                     THEN layer_name_to_neuron_count_per_feature_map_map[name]
                     ELSE get_neuron_count_per_feature_map(config_map[name])]
    /\ UNCHANGED <<entry_count, update_stat_mutex, writers, written,
                   not_writer_vars>>

\* the arrays a data_map may hold for a layer: one value per neuron, feature
\* map after feature map
DataOf(name) ==
    [1 .. Len(layer_name_to_running_stat_list_map[name])
              * layer_name_to_neuron_count_per_feature_map_map[name]
        -> NeuronValues]

\* lines 47-53: the next layer of data_map, or line 78 after the last
NextLayer(t, data_map, remaining) ==
    IF remaining = {}
    THEN [pc |-> "count"]
    ELSE LET layer_name == CHOOSE name \in remaining : TRUE
         IN  [pc |-> "accumulate",
              data_map |-> data_map,
              remaining |-> remaining \ {layer_name},
              layer_name |-> layer_name,
              feature_map_id |-> 0]

\* line 45: a thread calls write(data_map)
StartWrite(t) ==
    /\ writers[t].pc = "idle"
    /\ DOMAIN layer_name_to_running_stat_list_map # {}
    /\ Len(written) < MaxWrites
    /\ \E data_map \in [LayerNames -> UNION {DataOf(name) : name \in LayerNames}] :
          /\ \A name \in LayerNames : data_map[name] \in DataOf(name)
          /\ writers' = [writers EXCEPT ![t] = NextLayer(t, data_map, LayerNames)]
          /\ written' = Append(written, data_map)
    /\ UNCHANGED <<layer_name_to_running_stat_list_map,
                   layer_name_to_neuron_count_per_feature_map_map,
                   entry_count, update_stat_mutex, not_writer_vars>>

RECURSIVE AccumulateFrom(_, _, _)
\* lines 57-66: the values from the k-th on folded into current_running_stat
AccumulateFrom(values, k, current_running_stat) ==
    IF k > Len(values) THEN current_running_stat
    ELSE LET val == values[k]
         IN  AccumulateFrom(values, k + 1,
                 [min_val |-> IF val < current_running_stat.min_val
                              THEN val ELSE current_running_stat.min_val,
                  max_val |-> IF val > current_running_stat.max_val
                              THEN val ELSE current_running_stat.max_val,
                  sum |-> current_running_stat.sum + val,
                  sum_squared |-> current_running_stat.sum_squared + val * val])

\* the values of feature map feature_map_id (from 0) in an array of a layer
\* of neuron_count_per_feature_map neurons per feature map
FeatureMapValues(data, feature_map_id, neuron_count_per_feature_map) ==
    SubSeq(data, feature_map_id * neuron_count_per_feature_map + 1,
           (feature_map_id + 1) * neuron_count_per_feature_map)

\* lines 54-66: the loop test and the thread's own statistics of one feature
\* map
Accumulate(t) ==
    LET w == writers[t]
    IN  /\ w.pc = "accumulate"
        /\ writers' = [writers EXCEPT ![t] =
               IF w.feature_map_id
                      >= Len(layer_name_to_running_stat_list_map[w.layer_name])
               THEN NextLayer(t, w.data_map, w.remaining)
               ELSE [w EXCEPT !.pc = "lock"] @@
                    [current_running_stat |->
                        AccumulateFrom(
                            FeatureMapValues(
                                w.data_map[w.layer_name], w.feature_map_id,
                                layer_name_to_neuron_count_per_feature_map_map[
                                    w.layer_name]),
                            1, InitialRunningStat)]]
        /\ UNCHANGED <<layer_name_to_running_stat_list_map,
                       layer_name_to_neuron_count_per_feature_map_map,
                       entry_count, update_stat_mutex, written, not_writer_vars>>

LockWithoutMutex(t) ==
    /\ writers[t].pc = "lock"
    /\ update_stat_mutex' = t
    /\ writers' = [writers EXCEPT ![t] = [@ EXCEPT !.pc = "load"]]
    /\ UNCHANGED <<layer_name_to_running_stat_list_map,
                   layer_name_to_neuron_count_per_feature_map_map,
                   entry_count, written, not_writer_vars>>

\* line 69: boost::lock_guard takes update_stat_mutex when it is free
Lock(t) ==
    /\ writers[t].pc = "lock"
    /\ update_stat_mutex = 0
    /\ update_stat_mutex' = t
    /\ writers' = [writers EXCEPT ![t] = [@ EXCEPT !.pc = "load"]]
    /\ UNCHANGED <<layer_name_to_running_stat_list_map,
                   layer_name_to_neuron_count_per_feature_map_map,
                   entry_count, written, not_writer_vars>>

\* lines 70-73, the reads of running_stats[feature_map_id]
LoadRunningStat(t) ==
    LET w == writers[t]
    IN  /\ w.pc = "load"
        /\ writers' = [writers EXCEPT ![t] =
               [w EXCEPT !.pc = "store"] @@
               [loaded |-> layer_name_to_running_stat_list_map[w.layer_name][
                               w.feature_map_id + 1]]]
        /\ UNCHANGED <<layer_name_to_running_stat_list_map,
                       layer_name_to_neuron_count_per_feature_map_map,
                       entry_count, update_stat_mutex, written, not_writer_vars>>

\* lines 70-74, the writes of running_stats[feature_map_id], the release of
\* the mutex at the end of the block, and ++feature_map_id
StoreRunningStat(t) ==
    LET w == writers[t]
        cur == w.current_running_stat
    IN  /\ w.pc = "store"
        /\ layer_name_to_running_stat_list_map' =
               [layer_name_to_running_stat_list_map EXCEPT
                   ![w.layer_name][w.feature_map_id + 1] =
                       [max_val |-> IF cur.max_val > w.loaded.max_val
                                    THEN cur.max_val ELSE w.loaded.max_val,
                        min_val |-> IF cur.min_val < w.loaded.min_val
                                    THEN cur.min_val ELSE w.loaded.min_val,
                        sum |-> w.loaded.sum + cur.sum,
                        sum_squared |-> w.loaded.sum_squared + cur.sum_squared]]
        /\ update_stat_mutex' = 0
        /\ writers' = [writers EXCEPT ![t] =
               [pc |-> "accumulate", data_map |-> w.data_map,
                remaining |-> w.remaining, layer_name |-> w.layer_name,
                feature_map_id |-> w.feature_map_id + 1]]
        /\ UNCHANGED <<layer_name_to_neuron_count_per_feature_map_map,
                       entry_count, written, not_writer_vars>>

\* line 78, the read of ++entry_count: no lock is held
LoadEntryCount(t) ==
    /\ writers[t].pc = "count"
    /\ writers' = [writers EXCEPT ![t] =
           [pc |-> "store count", loaded_entry_count |-> entry_count]]
    /\ UNCHANGED <<layer_name_to_running_stat_list_map,
                   layer_name_to_neuron_count_per_feature_map_map,
                   entry_count, update_stat_mutex, written, not_writer_vars>>

\* line 78, the write of ++entry_count, and the return of write()
StoreEntryCount(t) ==
    /\ writers[t].pc = "store count"
    /\ entry_count' = U32(writers[t].loaded_entry_count + 1)
    /\ writers' = [writers EXCEPT ![t] = Idle]
    /\ UNCHANGED <<layer_name_to_running_stat_list_map,
                   layer_name_to_neuron_count_per_feature_map_map,
                   update_stat_mutex, written, not_writer_vars>>

\* the writer as constructed, no layer being in use
WriterInit == LayerInit

WriterNext ==
    \/ SetConfigMap
    \/ \E t \in Threads :
          \/ StartWrite(t)
          \/ Accumulate(t)
          \/ Lock(t)
          \/ LoadRunningStat(t)
          \/ StoreRunningStat(t)
          \/ LoadEntryCount(t)
          \/ StoreEntryCount(t)

WriterSpec == WriterInit /\ [][WriterNext]_vars

(***************************************************************************)
(* Properties                                                               *)
(***************************************************************************)
TrueEntries(mat) == Cardinality({k \in DOMAIN mat : mat[k]})

\* the least q with q * b >= a
CeilDiv(a, b) == CHOOSE q \in 0 .. a : q * b >= a /\ (q - 1) * b < a

\* the larger of cap + 1 and the integer part of 1.01 * cap
OverflowCap(cap) ==
    LET t == CHOOSE q \in 0 .. 2 * cap :
                 100 * q <= 101 * cap /\ 100 * (q + 1) > 101 * cap
    IN  IF t > cap + 1 THEN t ELSE cap + 1

OutDegree(o) ==
    Cardinality({n \in InIds : connection_matrix[MatrixIndex(o, n)]})

InDegree(n) ==
    Cardinality({o \in OutIds : connection_matrix[MatrixIndex(o, n)]})

\* C1: when fill_connection_matrix has returned, the matrix holds exactly
\* feature_map_connection_count true entries; during an attempt the local
\* matrix holds exactly i true entries, one more for every edge placed (a
\* placement sets an entry that was false, none is cleared).
C1_ExactEdgeCount ==
    /\ pc \in {"returned", "filled"} =>
           TrueEntries(connection_matrix) = feature_map_connection_count
    /\ pc \in {"tier1", "tier2", "tier3", "exit"} =>
           TrueEntries(local_connection_matrix) = i

C1_Witness ==
    /\ pc = "returned"
    /\ margin > 0
    /\ feature_map_connection_count = MaxConnectionCount
    /\ TrueEntries(connection_matrix) = MaxConnectionCount

C3_StrictCapsOnReturn ==
    pc \in {"returned", "filled"} =>
        /\ \A o \in OutIds :
               OutDegree(o) <= CeilDiv(feature_map_connection_count,
                                       output_feature_map_count) + margin
        /\ \A n \in InIds :
               InDegree(n) <= CeilDiv(feature_map_connection_count,
                                      input_feature_map_count) + margin

\* C3 amended: in the returned matrix every output and every input is
\* within the overflow cap max(c + 1, floor(1.01 * c)) of its strict cap
\* c = ceil(edge_count / count) + margin.
C3_OverflowCapsOnReturn ==
    pc \in {"returned", "filled"} =>
        /\ \A o \in OutIds :
               OutDegree(o) <= OverflowCap(
                   CeilDiv(feature_map_connection_count,
                           output_feature_map_count) + margin)
        /\ \A n \in InIds :
               InDegree(n) <= OverflowCap(
                   CeilDiv(feature_map_connection_count,
                           input_feature_map_count) + margin)

\* a returned matrix with an output at its overflow cap, above the strict one
C3_Witness ==
    /\ pc = "returned"
    /\ \E o \in OutIds :
           OutDegree(o) = OverflowCap(
               CeilDiv(feature_map_connection_count,
                       output_feature_map_count) + margin)

\* C8: after fill_data_custom the offset table starts at 0, ends at
\* edge_count and never decreases, and the columns of output o, at
\* positions offset[o] .. offset[o + 1] - 1, are exactly the inputs
\* connected to o, in strictly ascending order.
C8_CompressedRows ==
    pc = "filled" =>
        LET cols == data_custom[1]
            rows == data_custom[2]
        IN  /\ Len(cols) = feature_map_connection_count
            /\ Len(rows) = output_feature_map_count + 1
            /\ rows[1] = 0
            /\ rows[output_feature_map_count + 1] = feature_map_connection_count
            /\ \A o \in OutIds :
                   /\ rows[o + 1] <= rows[o + 2]
                   /\ rows[o + 2] - rows[o + 1] = OutDegree(o)
                   /\ {cols[k] : k \in rows[o + 1] + 1 .. rows[o + 2]}
                          = {n \in InIds : connection_matrix[MatrixIndex(o, n)]}
                   /\ \A k \in rows[o + 1] + 1 .. rows[o + 2] - 1 :
                          cols[k] < cols[k + 1]

\* a filled table whose rows have different lengths, one of them 2 or more
C8_Witness ==
    /\ pc = "filled"
    /\ \E o1, o2 \in OutIds :
           /\ OutDegree(o1) >= 2
           /\ OutDegree(o2) < OutDegree(o1)
           /\ data_custom[2][o1 + 2] - data_custom[2][o1 + 1] = OutDegree(o1)

\* the q with q * b <= a < (q + 1) * b, for a >= 0 and b > 0
FloorDiv(a, b) == CHOOSE q \in 0 .. a : q * b <= a /\ (q + 1) * b > a

Min(a, b) == IF a <= b THEN a ELSE b

RECURSIVE Product(_)
Product(seq) == IF seq = <<>> THEN 1 ELSE Head(seq) * Product(Tail(seq))

\* p * num / den rounded half up: the integer part of p * num / den + 1/2
RoundHalfUp(p, ratio) ==
    (2 * p * ratio.num + ratio.den) \div (2 * ratio.den)

\* the layer of the scenario: window 3x3, no padding, stride 1, 8 feature maps
ScenarioLayer ==
    Constructed(Members(<<3, 3>>, 8, 8, CountForm, 8, TRUE), <<>>, <<>>, <<>>)

\* C4: get_output_layer_configuration_specific returns a shape exactly when
\* the input has the layer's input feature-map count, the layer's
\* dimension count and, in every dimension, a padded size of at least the
\* window; the shape then has output_feature_map_count feature maps and
\* floor((size + left + right - window) / stride) + 1 in each dimension;
\* otherwise the call throws.  Window 3x3 on 10x10 gives 8x8.
C4_OutputShape ==
    /\ call.op = "get_output_layer_configuration_specific" =>
           LET n == Len(window_sizes)
               dims == call.input.dimension_sizes
               padded(k) == dims[k] + left_zero_padding[k] + right_zero_padding[k]
           IN  IF /\ call.input.feature_map_count = input_feature_map_count
                  /\ Len(dims) = n
                  /\ \A k \in 1 .. n : padded(k) >= window_sizes[k]
               THEN /\ call.result.error = "none"
                    /\ call.result.shape.feature_map_count
                           = output_feature_map_count
                    /\ Len(call.result.shape.dimension_sizes) = n
                    /\ \A k \in 1 .. n :
                           call.result.shape.dimension_sizes[k] =
                               FloorDiv(padded(k) - window_sizes[k], strides[k]) + 1
               ELSE call.result.error # "none"
    /\ ScenarioLayer.error = "none"
    /\ get_output_layer_configuration_specific(
           ScenarioLayer.layer, Shape(8, <<10, 10>>))
           = [error |-> "none", shape |-> Shape(8, <<8, 8>>)]

\* a strided, padded layer has returned a shape of size 2 or more
C4_Witness ==
    /\ call.op = "get_output_layer_configuration_specific"
    /\ call.result.error = "none"
    /\ Len(window_sizes) = 1
    /\ strides[1] = 2
    /\ left_zero_padding[1] > 0
    /\ right_zero_padding[1] > 0
    /\ call.result.shape.dimension_sizes[1] >= 2
    /\ input_feature_map_count # output_feature_map_count

\* C5 as stated: get_output_layer_configuration_specific followed by
\* get_input_layer_configuration_specific gives back the input's sizes.
C5_RoundTripExact ==
    call.op = "round trip" =>
        /\ call.result.error = "none"
        /\ call.result.shape.dimension_sizes = call.input.dimension_sizes

\* C5 amended: the round trip gives back the input's size in exactly the
\* dimensions where the stride divides size + left + right - window.
C5_RoundTripWhenStrideDivides ==
    call.op = "round trip" =>
        /\ call.result.error = "none"
        /\ Len(call.result.shape.dimension_sizes) = Len(call.input.dimension_sizes)
        /\ \A k \in 1 .. Len(window_sizes) :
               (call.result.shape.dimension_sizes[k]
                    = call.input.dimension_sizes[k])
               <=> ((call.input.dimension_sizes[k] + left_zero_padding[k]
                        + right_zero_padding[k] - window_sizes[k])
                       % strides[k] = 0)

\* a round trip through a strided, padded layer that gave the size back
C5_Witness ==
    /\ call.op = "round trip"
    /\ call.result.error = "none"
    /\ Len(window_sizes) = 1
    /\ strides[1] = 2
    /\ right_zero_padding[1] > 0
    /\ call.output.dimension_sizes[1] >= 2
    /\ call.result.shape.dimension_sizes = call.input.dimension_sizes

\* C6: for an output shape with the layer's output feature-map count and
\* dimension count and sizes of at least 1,
\* get_input_layer_configuration_specific returns true with, in every
\* dimension, the integer (size - 1) * stride + window - left - right,
\* which is not negative: the unsigned computation does not wrap.
C6_InputSizeNeverWraps ==
    (/\ call.op = "get_input_layer_configuration_specific"
     /\ call.output.feature_map_count = output_feature_map_count
     /\ Len(call.output.dimension_sizes) = Len(window_sizes)
     /\ \A k \in 1 .. Len(window_sizes) : call.output.dimension_sizes[k] >= 1)
    => /\ call.result.error = "none"
       /\ call.result.supported
       /\ \A k \in 1 .. Len(window_sizes) :
              /\ call.result.shape.dimension_sizes[k] =
                     (call.output.dimension_sizes[k] - 1) * strides[k]
                         + window_sizes[k] - left_zero_padding[k]
                         - right_zero_padding[k]
              /\ call.result.shape.dimension_sizes[k] >= 0

\* the four constraints on window sizes ws, an edge count, paddings lzp
\* and rzp, strides st and the feature-map counts
FourConstraints(ws, ifm, ofm, edges, lzp, rzp, st) ==
    /\ \A k \in 1 .. Len(ws) : ws[k] > 0
    /\ Max(ifm, ofm) <= edges
    /\ edges <= ifm * ofm
    /\ \A k \in 1 .. Min(Len(ws), Len(lzp)) : lzp[k] < ws[k]
    /\ \A k \in 1 .. Min(Len(ws), Len(rzp)) : rzp[k] < ws[k]
    /\ \A k \in 1 .. Len(st) : st[k] > 0

\* the four constraints on the parameters of the last constructor call, the
\* edge count of the ratio form being the one the constructor derived
ConstructorConstraints ==
    FourConstraints(
        call.window_sizes, call.input_feature_map_count,
        call.output_feature_map_count,
        IF call.form = "count" THEN call.feature_map_connection_count
        ELSE feature_map_connection_count,
        call.left_zero_padding, call.right_zero_padding, call.strides)

\* each list given to the constructor is empty or as long as window_sizes
ConstructorDimensionCounts ==
    /\ Len(call.left_zero_padding) \in {0, Len(call.window_sizes)}
    /\ Len(call.right_zero_padding) \in {0, Len(call.window_sizes)}
    /\ Len(call.strides) \in {0, Len(call.window_sizes)}

\* the message of the last read_proto call holds an edge count or a ratio
ProtoHasEdges ==
    /\ call.proto.has_sparse_convolution_param
    /\ \/ call.proto.feature_map_connection_count # <<>>
       \/ call.proto.feature_map_connection_sparsity_ratio # <<>>

\* the four constraints on the values of the message of the last
\* read_proto call, an unset padding being 0 and an unset stride 1, the
\* edge count of the ratio form being the one read_proto derived
ProtoConstraints ==
    LET p == call.proto
        n == Len(p.dimension_param)
        value(f, default) == IF f = <<>> THEN default ELSE f[1]
    IN  FourConstraints(
            [k \in 1 .. n |-> p.dimension_param[k].kernel_size],
            p.input_feature_map_count, p.output_feature_map_count,
            IF p.feature_map_connection_count # <<>>
            THEN p.feature_map_connection_count[1]
            ELSE feature_map_connection_count,
            [k \in 1 .. n |-> value(p.dimension_param[k].left_padding, 0)],
            [k \in 1 .. n |-> value(p.dimension_param[k].right_padding, 0)],
            [k \in 1 .. n |-> value(p.dimension_param[k].stride, 1)])

\* the four constraints on the instance
InstanceConstraints ==
    FourConstraints(window_sizes, input_feature_map_count,
                    output_feature_map_count, feature_map_connection_count,
                    left_zero_padding, right_zero_padding, strides)

\* C7 as stated: a constructor call or a read_proto returns without error
\* if and only if the four constraints hold of its parameters (a message
\* without an edge count and without a ratio has no edge count in range).
C7_ValidIffFourConstraints ==
    /\ call.op = "constructor" =>
           (call.error = "none" <=> ConstructorConstraints)
    /\ call.op = "read_proto" =>
           (call.error = "none" <=> (ProtoHasEdges /\ ProtoConstraints))

\* C7 amended: a constructor call returns without error if and only if
\* each of the padding and stride lists given is empty or as long as the
\* window list and the four constraints hold; a read_proto returns
\* without error if and only if the message holds a
\* sparse_convolution_param with an edge count or a ratio and the four
\* constraints hold; every instance so produced satisfies the four.
C7_ValidIffDimensionsAndConstraints ==
    /\ call.op = "constructor" =>
           (call.error = "none"
                <=> (ConstructorDimensionCounts /\ ConstructorConstraints))
    /\ call.op = "read_proto" =>
           (call.error = "none" <=> (ProtoHasEdges /\ ProtoConstraints))
    /\ pc = "ready" => InstanceConstraints

\* a constructor call with omitted strides and with paddings has returned
C7_Witness ==
    /\ call.op = "constructor"
    /\ call.error = "none"
    /\ pc = "ready"
    /\ call.strides = <<>>
    /\ Len(call.window_sizes) = 1
    /\ call.left_zero_padding = <<MaxPadding>>
    /\ strides = <<1>>

\* C9: get_data_config declares a weight group of edge_count times the
\* product of the window sizes, then a bias group of
\* output_feature_map_count when bias is on and no bias group otherwise.
C9_DataConfig ==
    call.op = "get_data_config" =>
        /\ call.result[1] = feature_map_connection_count * Product(window_sizes)
        /\ bias => Len(call.result) = 2
                   /\ call.result[2] = output_feature_map_count
        /\ ~bias => Len(call.result) = 1

\* the sizes of a layer with bias, a window and more edges than outputs
C9_Witness ==
    /\ call.op = "get_data_config"
    /\ bias
    /\ Len(window_sizes) = 1
    /\ window_sizes[1] >= 2
    /\ feature_map_connection_count > output_feature_map_count
    /\ input_feature_map_count # output_feature_map_count
    /\ Len(call.result) = 2

\* C10: in the ratio form the edge count is input_feature_map_count *
\* output_feature_map_count * ratio rounded half up, whether the ratio
\* came through the constructor or through read_proto; ratio 0.5 with 4
\* inputs and 6 outputs gives 12.
C10_EdgeCountFromRatio ==
    /\ (/\ call.op = "constructor"
        /\ call.form = "ratio"
        /\ ConstructorDimensionCounts)
       => feature_map_connection_count =
              RoundHalfUp(call.input_feature_map_count
                              * call.output_feature_map_count,
                          call.feature_map_connection_sparsity_ratio)
    /\ (/\ call.op = "read_proto"
        /\ call.proto.has_sparse_convolution_param
        /\ call.proto.feature_map_connection_count = <<>>
        /\ call.proto.feature_map_connection_sparsity_ratio # <<>>)
       => feature_map_connection_count =
              RoundHalfUp(call.proto.input_feature_map_count
                              * call.proto.output_feature_map_count,
                          call.proto.feature_map_connection_sparsity_ratio[1])
    /\ (pc = "ready" /\ feature_map_connection_sparsity_ratio.num >= 0)
       => feature_map_connection_count =
              RoundHalfUp(input_feature_map_count * output_feature_map_count,
                          feature_map_connection_sparsity_ratio)
    /\ ConstructorConnectionCount(4, 6, Ratio(1, 2)) = 12
    /\ ReadProtoConnectionCount(4, 6, Ratio(1, 2)) = 12

\* C11: the loss layer's get_output_layer_configuration_specific returns a
\* shape exactly when inputs 0 and 1 have the same feature-map count and
\* the same neuron count per feature map and a third input, if present,
\* has one feature map and the neuron count per feature map of input 0;
\* the shape has one feature map and the dimension sizes of input 0.
\* Otherwise the call throws, as for feature-map counts 10 and 5.
C11_LossOutputShape ==
    /\ call.op = "nll get_output_layer_configuration_specific" =>
           LET in == call.inputs
               neurons(k) == Product(in[k].dimension_sizes)
           IN  IF /\ in[1].feature_map_count = in[2].feature_map_count
                  /\ neurons(1) = neurons(2)
                  /\ Len(in) > 2 => /\ in[3].feature_map_count = 1
                                    /\ neurons(3) = neurons(1)
               THEN call.result =
                        [error |-> "none",
                         shape |-> Shape(1, in[1].dimension_sizes)]
               ELSE call.result.error # "none"
    /\ nll_get_output_layer_configuration_specific(
           <<Shape(10, <<4>>), Shape(5, <<4>>)>>).error # "none"

\* three inputs accepted although inputs 0 and 1 differ in their dimensions
C11_Witness ==
    /\ call.op = "nll get_output_layer_configuration_specific"
    /\ Len(call.inputs) = 3
    /\ call.result.error = "none"
    /\ call.inputs[1].feature_map_count = 2
    /\ call.inputs[1].dimension_sizes # call.inputs[2].dimension_sizes
    /\ call.result.shape.dimension_sizes = <<2, 1>>

\* the compute phases
Phases == {"forward", "backward_data", "backward_weights"}

\* C12 as stated: get_flops_per_entry returns a different value for each
\* phase the layer implements, on the same input shapes, and 0 for every
\* phase it does not implement (the sparse convolution implements the
\* three phases, the loss layer forward and backward_data).
C12_DistinctPerPhase ==
    /\ (/\ call.op = "get_flops_per_entry"
        /\ call.result.error = "none")
       => IF call.action_type \in Phases
          THEN \A other \in Phases \ {call.action_type} :
                   get_flops_per_entry(Layer, call.input, other).flops
                       # call.result.flops
          ELSE call.result.flops = 0
    /\ (/\ call.op = "nll get_flops_per_entry"
        /\ call.result.error = "none")
       => IF call.action.action_type = "backward_data"
          THEN LET forward == nll_get_flops_per_entry(
                                  call.inputs,
                                  [action_type |-> "forward", backprop_index |-> 1])
               IN  forward.error = "none"
                       => forward.flops # call.result.flops
          ELSE call.action.action_type # "forward" => call.result.flops = 0

\* C12 amended: the sparse convolution returns the same value for forward,
\* backward_data and backward_weights, the neuron count per feature map of
\* the output times 2 * edge count * product of the window sizes, less 1
\* without bias, and 0 for any other action; the loss layer returns the
\* neuron count of its output times 3 * feature-map count of input 0 for
\* forward, 2 * the neuron count of the input propagated to for
\* backward_data, and 0 for any other action; forward throws when the
\* output shape does.
C12_CostPerPhase ==
    /\ call.op = "get_flops_per_entry" =>
           LET output == get_output_layer_configuration_specific(Layer, call.input)
           IN  IF call.action_type \notin Phases
               THEN call.result = [error |-> "none", flops |-> 0]
               ELSE IF output.error # "none"
               THEN call.result.error # "none"
               ELSE call.result =
                        [error |-> "none",
                         flops |-> Product(output.shape.dimension_sizes)
                                       * (2 * feature_map_connection_count
                                              * Product(window_sizes)
                                          - (IF bias THEN 0 ELSE 1))]
    /\ call.op = "nll get_flops_per_entry" =>
           LET in == call.inputs
               output == nll_get_output_layer_configuration_specific(in)
               k == call.action.backprop_index
           IN  IF call.action.action_type = "forward"
               THEN IF output.error # "none"
                    THEN call.result.error # "none"
                    ELSE call.result =
                             [error |-> "none",
                              flops |-> Product(in[1].dimension_sizes)
                                            * 3 * in[1].feature_map_count]
               ELSE IF call.action.action_type = "backward_data"
               THEN call.result =
                        [error |-> "none",
                         flops |-> 2 * in[k].feature_map_count
                                       * Product(in[k].dimension_sizes)]
               ELSE call.result = [error |-> "none", flops |-> 0]

\* the cost of backward_weights of a sparse convolution without bias
C12_Witness ==
    /\ call.op = "get_flops_per_entry"
    /\ call.action_type = "backward_weights"
    /\ call.result.error = "none"
    /\ ~bias
    /\ Len(window_sizes) = 1
    /\ window_sizes[1] >= 2
    /\ call.result.flops
           = get_flops_per_entry(Layer, call.input, "forward").flops
    /\ call.result.flops >= 2 * (2 * 2 * 2 - 1)

\* C13: write_proto followed by read_proto on another instance gives the
\* same configuration; the message holds bias only when it is false, a
\* padding only when it is not 0, a stride only when it is not 1, and
\* exactly one of the edge count and the ratio, the one of the form the
\* layer was given in; the loss layer's message holds a scale only when it
\* is not 1.0, and read_proto gives the scale back.
C13_SerializationRoundTrip ==
    /\ call.op = "write_proto read_proto" =>
           /\ call.result.error = "none"
           /\ call.result.layer = Layer
           /\ (call.proto.bias # <<>>) <=> ~bias
           /\ (call.proto.feature_map_connection_count # <<>>)
                  <=> (feature_map_connection_sparsity_ratio = CountForm)
           /\ (call.proto.feature_map_connection_sparsity_ratio # <<>>)
                  <=> (call.proto.feature_map_connection_count = <<>>)
           /\ Len(call.proto.dimension_param) = Len(window_sizes)
           /\ \A k \in 1 .. Len(window_sizes) :
                  LET dim == call.proto.dimension_param[k]
                  IN  /\ (dim.left_padding # <<>>) <=> (left_zero_padding[k] # 0)
                      /\ (dim.right_padding # <<>>) <=> (right_zero_padding[k] # 0)
                      /\ (dim.stride # <<>>) <=> (strides[k] # 1)
    /\ call.op = "nll write_proto read_proto" =>
           /\ call.result = scale
           /\ call.proto.has_negative_log_likelihood_param
                  <=> (scale # Ratio(2, 2))

\* a layer in ratio form, without bias, with a padding and a stride of 2,
\* written and read back
C13_Witness ==
    /\ call.op = "write_proto read_proto"
    /\ call.result.error = "none"
    /\ feature_map_connection_sparsity_ratio = Ratio(2, 2)
    /\ ~bias
    /\ left_zero_padding = <<1>>
    /\ right_zero_padding = <<0>>
    /\ strides = <<2>>
    /\ call.result.layer.strides = <<2>>

RECURSIVE ValuesWritten(_, _, _)
\* the values of feature map f (from 1) of a layer in the first n calls of
\* write
ValuesWritten(name, f, n) ==
    IF n = 0 THEN <<>>
    ELSE LET neurons == layer_name_to_neuron_count_per_feature_map_map[name]
         IN  ValuesWritten(name, f, n - 1)
                 \o SubSeq(written[n][name], (f - 1) * neurons + 1, f * neurons)

RECURSIVE SumOf(_)
SumOf(values) == IF values = <<>> THEN 0 ELSE Head(values) + SumOf(Tail(values))

Squares(values) == [k \in 1 .. Len(values) |-> values[k] * values[k]]

\* C14: a thread reads and writes a layer's running statistics only while
\* it holds update_stat_mutex, which one thread holds at a time, and once
\* every write has returned each feature map's sum and sum of squares are
\* the totals over all values written and its min and max are their
\* extremes.
C14_NoLostUpdate ==
    /\ \A t \in Threads :
           writers[t].pc \in {"load", "store"} => update_stat_mutex = t
    /\ (\A t \in Threads : writers[t].pc = "idle") =>
           \A name \in DOMAIN layer_name_to_running_stat_list_map :
               \A f \in 1 .. Len(layer_name_to_running_stat_list_map[name]) :
                   LET stat == layer_name_to_running_stat_list_map[name][f]
                       values == ValuesWritten(name, f, Len(written))
                       range == {values[k] : k \in 1 .. Len(values)}
                   IN  /\ stat.sum = SumOf(values)
                       /\ stat.sum_squared = SumOf(Squares(values))
                       /\ range # {} =>
                              /\ stat.min_val \in range
                              /\ stat.max_val \in range
                              /\ \A v \in range : stat.min_val <= v /\ v <= stat.max_val

\* two calls of write have returned after running at the same time (one
\* increment of entry_count was lost), on a layer of two feature maps
C14_Witness ==
    /\ \A t \in Threads : writers[t].pc = "idle"
    /\ Len(written) = 2
    /\ entry_count = 1
    /\ Len(layer_name_to_running_stat_list_map["conv"]) = 2
    /\ layer_name_to_running_stat_list_map["conv"][2].min_val = -1
    /\ layer_name_to_running_stat_list_map["conv"][2].max_val = MaxNeuronValue
    /\ layer_name_to_running_stat_list_map["conv"][2].sum = 2 * MaxNeuronValue - 2

\* the strict cap ceil(edge_count / count) + margin of the running attempt
StrictCapOf(count) == CeilDiv(feature_map_connection_count, count) + margin

InAttempt == pc \in {"tier1", "tier2", "tier3", "exit"}

\* C15: at every step of an attempt the count lists are the degrees of the
\* local matrix, every output and every input is within its overflow cap
\* max(c + 1, floor(1.01 * c)), c = ceil(edge_count / count) + margin, and a
\* node is on its strict (overflow) list exactly while its degree is below
\* the strict (overflow) cap; the returned matrix is within the overflow caps.
C15_CapsAtEveryStep ==
    /\ InAttempt =>
           /\ \A o \in OutIds :
                  LET d == RowCount(local_connection_matrix, o)
                      c == StrictCapOf(output_feature_map_count)
                  IN  /\ output_feature_map_connection_count_list[o] = d
                      /\ d <= OverflowCap(c)
                      /\ Contains(output_feature_map_id_available_list, o)
                             <=> d < c
                      /\ Contains(output_feature_map_id_available_overflow_list, o)
                             <=> d < OverflowCap(c)
           /\ \A n \in InIds :
                  LET d == ColCount(local_connection_matrix, n)
                      c == StrictCapOf(input_feature_map_count)
                  IN  /\ input_feature_map_connection_count_list[n] = d
                      /\ d <= OverflowCap(c)
                      /\ Contains(input_feature_map_id_available_list, n)
                             <=> d < c
                      /\ Contains(input_feature_map_id_available_overflow_list, n)
                             <=> d < OverflowCap(c)
    /\ pc \in {"returned", "filled"} =>
           /\ \A o \in OutIds :
                  RowCount(connection_matrix, o)
                      <= OverflowCap(StrictCapOf(output_feature_map_count))
           /\ \A n \in InIds :
                  ColCount(connection_matrix, n)
                      <= OverflowCap(StrictCapOf(input_feature_map_count))

\* an attempt in which an output has left both of its lists at the overflow
\* cap and an input only the strict one, at its strict cap
C15_Witness ==
    /\ InAttempt
    /\ \E o \in OutIds :
           /\ RowCount(local_connection_matrix, o)
                  = OverflowCap(StrictCapOf(output_feature_map_count))
           /\ ~Contains(output_feature_map_id_available_overflow_list, o)
    /\ \E n \in InIds :
           /\ ColCount(local_connection_matrix, n)
                  = StrictCapOf(input_feature_map_count)
           /\ ~Contains(input_feature_map_id_available_list, n)
           /\ Contains(input_feature_map_id_available_overflow_list, n)

Tiers == {"tier1", "tier2", "tier3"}

\* the step begins the search for another edge: the first of an attempt, or
\* the one after a placement
NewEdge == pc = "attempt" \/ i' # i

\* within one edge a tier is entered only after the tier before it has used
\* up its attempts: 20 for the cursor tier, 100 for the random strict tier
LadderWithinEdge ==
    /\ (~NewEdge /\ pc' = "tier2" /\ pc # "tier2") =>
           pc = "tier1" /\ attempt_id = StrictCursorAttempts - 1
    /\ (~NewEdge /\ pc' = "tier3" /\ pc # "tier3") =>
           pc = "tier2" /\ attempt_id = StrictRandomAttempts - 1
    /\ pc = "tier1" => attempt_id < StrictCursorAttempts
    /\ pc = "tier2" => attempt_id < StrictRandomAttempts
    /\ pc = "tier3" => attempt_id < OverflowAttempts

\* C16 as stated: the search for every edge starts with the cursor tier, and
\* within the edge the tiers follow in order, so that no edge reaches the
\* overflow tier without the strict tiers having been tried for it.
C16_StrictTiersForEveryEdge ==
    [][/\ LadderWithinEdge
       /\ (NewEdge /\ pc' \in Tiers) => pc' = "tier1"]_vars

\* C16 amended: within an edge the tiers follow in order; the first edge of
\* an attempt starts with the cursor tier, and so does every edge while
\* explore_strict holds; once the strict tiers have failed for one edge
\* explore_strict stays false for the rest of the attempt and every later
\* edge of it starts in the overflow tier.
C16_StrictTiersWhileExploring ==
    [][/\ LadderWithinEdge
       /\ (NewEdge /\ pc' \in Tiers) =>
              pc' = IF explore_strict' THEN "tier1" ELSE "tier3"
       /\ pc = "attempt" => explore_strict'
       /\ (pc # "attempt" /\ ~explore_strict) => ~explore_strict'
       /\ pc' \in {"tier1", "tier2"} => explore_strict']_vars

\* the overflow tier at work for an edge, strict exploration switched off,
\* edges already placed in the attempt and another edge to place after this
C16_Witness ==
    /\ pc = "tier3"
    /\ ~explore_strict
    /\ attempt_id > 0
    /\ i > 0
    /\ i + 1 < feature_map_connection_count

\* C17: every output feature map has at least one connection in the matrix
\* fill_connection_matrix returns. In every attempt the first output_count
\* placements are made by the cursor tier, one to each output in turn: after
\* i <= output_count placements outputs 0 .. i - 1 have exactly one
\* connection and the others none, and afterwards no output is without one.
C17_EveryOutputConnected ==
    /\ pc \in {"returned", "filled"} => \A o \in OutIds : OutDegree(o) >= 1
    /\ InAttempt =>
           \A o \in OutIds :
               IF i <= output_feature_map_count
               THEN RowCount(local_connection_matrix, o) = IF o < i THEN 1 ELSE 0
               ELSE RowCount(local_connection_matrix, o) >= 1
    /\ (pc \in Tiers /\ i < output_feature_map_count) => pc = "tier1"

\* a matrix returned after a retry, in which one output holds exactly one
\* connection and another holds more
C17_Witness ==
    /\ pc = "returned"
    /\ margin > 0
    /\ output_feature_map_count = MaxOutputCount
    /\ \E o1, o2 \in OutIds : OutDegree(o1) = 1 /\ OutDegree(o2) > 1

\* the inputs with at least one connection in the returned matrix
ConnectedInputs == {n \in InIds : InDegree(n) >= 1}

\* C18 as stated: every input feature map has at least one connection in
\* the matrix fill_connection_matrix returns.
C18_EveryInputConnected ==
    pc \in {"returned", "filled"} => ConnectedInputs = InIds

\* C18 amended: the returned matrix may leave inputs without a connection;
\* the inputs it does connect number at least edge_count divided by the
\* overflow cap max(c + 1, floor(1.01 * c)), c = ceil(edge_count /
\* input_count) + margin, and all of them are connected when the matrix is
\* dense.
C18_ConnectedInputsBound ==
    pc \in {"returned", "filled"} =>
        /\ Cardinality(ConnectedInputs)
               * OverflowCap(StrictCapOf(input_feature_map_count))
                   >= feature_map_connection_count
        /\ feature_map_connection_count
               = input_feature_map_count * output_feature_map_count
                   => ConnectedInputs = InIds

\* a matrix returned by the first attempt in which an input has no connection
\* although there are more edges than inputs
C18_Witness ==
    /\ pc = "returned"
    /\ margin = 0
    /\ feature_map_connection_count > input_feature_map_count
    /\ \E n \in InIds : InDegree(n) = 0

\* C19: fill_connection_matrix never indexes a list out of range nor erases
\* end(): a strict tier runs only with explore_strict set, both strict lists
\* non-empty and the cursor below the size of the strict output list; the
\* overflow tier runs only with both overflow lists non-empty, and no
\* overflow list is empty while edges remain to be placed.
C19_IndexSafety ==
    /\ pc # "undefined"
    /\ pc \in {"tier1", "tier2"} =>
           /\ explore_strict
           /\ output_feature_map_id_available_list # <<>>
           /\ input_feature_map_id_available_list # <<>>
           /\ current_output_feature_map_index
                  < Len(output_feature_map_id_available_list)
    /\ (InAttempt /\ i < feature_map_connection_count) =>
           /\ output_feature_map_id_available_overflow_list # <<>>
           /\ input_feature_map_id_available_overflow_list # <<>>
    /\ pc \in Tiers => i < feature_map_connection_count

\* the cursor tier, after a draw that failed, at work on the last element
\* of a strict output list that has lost an output
C19_Witness ==
    /\ pc = "tier1"
    /\ attempt_id > 0
    /\ Len(output_feature_map_id_available_list) < output_feature_map_count
    /\ current_output_feature_map_index
           = Len(output_feature_map_id_available_list) - 1

\* C20: for every output shape s that get_input_layer_configuration_specific
\* accepts, the input shape it returns has input_feature_map_count feature
\* maps, and get_output_layer_configuration_specific applied to that shape
\* is accepted and returns exactly s.
C20_InverseConsistent ==
    (/\ call.op = "get_input_layer_configuration_specific"
     /\ call.result.error = "none")
    => /\ call.result.shape.feature_map_count = input_feature_map_count
       /\ get_output_layer_configuration_specific(Layer, call.result.shape)
              = [error |-> "none", shape |-> call.output]

\* C21: once every call of write has returned, entry_count is the number of
\* calls made, whatever the interleaving of the threads.
C21_EntryCountExact ==
    (\A t \in Threads : writers[t].pc = "idle") => entry_count = Len(written)

====
